---- MODULE Spec2Model ----
(***************************************************************************)
(* Model of the slab (critbit tree) reader of open-book-sdk-rs:            *)
(*   src/src/openbook/slab.rs   Slab::get, Slab::items                      *)
(*   src/src/openbook/order.rs  Orderbook::get_l2, get_price_from_key       *)
(* Keys are KeyBits wide instead of 128; the price is the upper part of    *)
(* the key (key >> PriceShift, 64 of 128 in the source).  Arena indices    *)
(* are 0-based as in the source.                                           *)
(***************************************************************************)
EXTENDS Integers, Sequences, FiniteSets, TLC

\* ------------------------------------------------------------------ bounds
\* width of a key in bits (128 in the source)
KeyBits == 3
\* largest number of leaves of a generated tree
MaxLeaves == 3
\* largest depth argument passed to get_l2
MaxDepth == 2

\* the number of low bits below the price (64 of 128 in the source)
PriceShift == KeyBits \div 2

Keys == 0 .. (2 ^ KeyBits - 1)

\* ------------------------------------------------------------ bit helpers
\* x.shift_right(n) on an arbitrary-precision unsigned integer
ShiftRight(x, n) == x \div (2 ^ n)

\* x.testn(n): whether bit n of x is set
TestN(x, n) == (x \div (2 ^ n)) % 2 = 1

RECURSIVE XorFrom(_, _, _)
XorFrom(a, b, n) ==
    IF n = 0 THEN 0
    ELSE (((a % 2) + (b % 2)) % 2) + 2 * XorFrom(a \div 2, b \div 2, n - 1)

\* a.bitwise_xor(b) on KeyBits-wide values
BitwiseXor(a, b) == XorFrom(a, b, KeyBits)

\* ------------------------------------------------------------------ nodes
Uninitialized == [tag |-> "Uninitialized"]
InnerNode(p, k, c) == [tag |-> "InnerNode", prefix_len |-> p, key |-> k, children |-> c]
LeafNode(k, q) == [tag |-> "LeafNode", key |-> k, quantity |-> q]
FreeNode(n) == [tag |-> "FreeNode", next |-> n]
LastFreeNode == [tag |-> "LastFreeNode"]

Capacity(s) == Cardinality(DOMAIN s.nodes)
InArena(s, i) == i \in DOMAIN s.nodes
IsLeaf(s, i) == InArena(s, i) /\ s.nodes[i].tag = "LeafNode"
IsInner(s, i) == InArena(s, i) /\ s.nodes[i].tag = "InnerNode"

\* children[b] with the source's 0-based b
Child(node, b) == node.children[b + 1]

\* get_price_from_key keeping one bit of the sequence number
get_price_from_key_short(key) == ShiftRight(key, PriceShift - 1)

\* decoded price of a key: key >> 64
get_price_from_key(key) == ShiftRight(key, PriceShift)

\* ------------------------------------------------- the slabs of the model
\* A slab is [header, nodes]; nodes is the arena, a function on 0 .. N-1.
Max(S) == CHOOSE x \in S : \A y \in S : y <= x

\* number of leading bits shared by all keys of K
CommonPrefixLen(K) ==
    Max({p \in 0 .. KeyBits :
            \A a, b \in K : ShiftRight(a, KeyBits - p) = ShiftRight(b, KeyBits - p)})

\* quantity of the order with key k under the quantity assignment qsel
QuantityOf(k, qsel) == 1 + ((k + qsel) % 3)

\* The critbit tree over the key set K, in preorder, first node at index base.
\* An inner node carries prefix_len, a key that shares the prefix, and the
\* indices of the subtree with critical bit 0 and with critical bit 1.
RECURSIVE BuildNodes(_, _, _)
BuildNodes(K, base, qsel) ==
    IF Cardinality(K) = 1
    THEN LET k == CHOOSE x \in K : TRUE IN << LeafNode(k, QuantityOf(k, qsel)) >>
    ELSE LET p == CommonPrefixLen(K)
             bit == KeyBits - p - 1
             K0 == {k \in K : ~TestN(k, bit)}
             K1 == {k \in K : TestN(k, bit)}
             left == BuildNodes(K0, base + 1, qsel)
             right == BuildNodes(K1, base + 1 + Len(left), qsel)
         IN << InnerNode(p, Max(K), << base + 1, base + 1 + Len(left) >>) >>
                \o left \o right

\* The slab of the orders K: the tree at indices 0 .. n-1, root 0, and one
\* free slot (LastFreeNode) at index n, the head of the free list.
MkSlab(K, qsel) ==
    LET seq == BuildNodes(K, 0, qsel)
        n == Len(seq)
    IN [header |-> [bump_index |-> n + 1, free_list_len |-> 1, free_list_head |-> n,
                    root |-> 0, leaf_count |-> Cardinality(K)],
        nodes |-> [i \in 0 .. n |-> IF i < n THEN seq[i + 1] ELSE LastFreeNode]]

\* The same slab with the arena laid out in the opposite order.
Mirror(s) ==
    LET n == Capacity(s)
        m(i) == n - 1 - i
        mv(nd) == IF nd.tag = "InnerNode"
                  THEN [nd EXCEPT !.children = << m(nd.children[1]), m(nd.children[2]) >>]
                  ELSE nd
    IN [header |-> [s.header EXCEPT !.root = m(s.header.root),
                                    !.free_list_head = m(s.header.free_list_head)],
        nodes |-> [i \in 0 .. n - 1 |-> mv(s.nodes[m(i)])]]

KeySets == {K \in SUBSET Keys : Cardinality(K) >= 1 /\ Cardinality(K) <= MaxLeaves}

\* Slabs as the on-chain program maintains them.
ProgramSlabs ==
    {MkSlab(K, 0) : K \in KeySets} \cup {Mirror(MkSlab(K, 1)) : K \in KeySets}

\* Slabs a remote party can send instead: the header says the tree is empty
\* while root and nodes are stale; the root or a child index points anywhere
\* in the arena or one past it (cycles, shared subtrees, the free slot); the
\* children of an inner node are exchanged; a node of the tree is a free or
\* blank record.
SetRoot(s, j, lc) == [s EXCEPT !.header.root = j, !.header.leaf_count = lc]
SetChild(s, i, b, j) == [s EXCEPT !.nodes[i].children[b] = j]
SwapChildren(s, i) ==
    [s EXCEPT !.nodes[i].children = << s.nodes[i].children[2], s.nodes[i].children[1] >>]
SetNode(s, i, nd) == [s EXCEPT !.nodes[i] = nd]

Corruptions(s) ==
    LET n == Capacity(s)
        inner == {i \in DOMAIN s.nodes : IsInner(s, i)}
    IN {SetRoot(s, j, lc) : j \in 0 .. n, lc \in {0, s.header.leaf_count}}
        \cup {SetChild(s, i, b, j) : i \in inner, b \in 1 .. 2, j \in 0 .. n}
        \cup {SwapChildren(s, i) : i \in inner}
        \cup {SetNode(s, i, nd) : i \in 0 .. n - 2, nd \in {Uninitialized, FreeNode(n - 1)}}

\* the trees that are corrupted: those over the keys with the top bit clear
LowKeySets == {K \in KeySets : \A k \in K : ~TestN(k, KeyBits - 1)}

Slabs == ProgramSlabs \cup UNION {Corruptions(MkSlab(K, 0)) : K \in LowKeySets}

\* ------------------------------------------------------- well-formedness
\* indices reachable from the set F through the children of inner nodes
RECURSIVE ReachFrom(_, _, _)
ReachFrom(s, F, seen) ==
    IF F \subseteq seen THEN seen
    ELSE LET new == F \ seen
             nxt == UNION {{s.nodes[i].children[1], s.nodes[i].children[2]} :
                              i \in {x \in new : IsInner(s, x)}}
         IN ReachFrom(s, nxt, seen \cup new)

Reach(s, i) == ReachFrom(s, {i}, {})
LeavesUnder(s, i) == {l \in Reach(s, i) : IsLeaf(s, l)}
ReachableLeaves(s) == LeavesUnder(s, s.header.root)

\* A critbit tree: every reachable index is an inner node or a leaf of the
\* arena, every reachable node has one parent (the root none), each inner
\* node's prefix_len-bit prefix is shared by the leaves below it, which lie
\* under children[0] when their next bit is 0 and under children[1] when it
\* is 1, and leaf_count counts the reachable leaves.
WellFormed(s) ==
    LET R == Reach(s, s.header.root)
        I == {i \in R : IsInner(s, i)}
        Parents(c) == {<< i, b >> \in I \X (1 .. 2) : s.nodes[i].children[b] = c}
    IN /\ \A i \in R : IsLeaf(s, i) \/ IsInner(s, i)
       /\ Parents(s.header.root) = {}
       /\ \A c \in R \ {s.header.root} : Cardinality(Parents(c)) = 1
       /\ \A i \in I :
            /\ s.nodes[i].prefix_len \in 0 .. KeyBits - 1
            /\ \A b \in 0 .. 1 :
                 \A l \in LeavesUnder(s, Child(s.nodes[i], b)) :
                    /\ ShiftRight(BitwiseXor(s.nodes[l].key, s.nodes[i].key),
                                  KeyBits - s.nodes[i].prefix_len) = 0
                    /\ TestN(s.nodes[l].key, KeyBits - s.nodes[i].prefix_len - 1) = (b = 1)
       /\ s.header.leaf_count = Cardinality({l \in R : IsLeaf(s, l)})

\* ------------------------------------------------------------------ state
VARIABLES
    slab,        \* the decoded Slab {header, nodes}; never written after decoding
    pc,          \* "idle", "get", "get_done", "items", "l2", "l2_done"
    search_key,  \* Slab::get: the key searched for
    index,       \* Slab::get: the node index of the descent
    steps,       \* loop iterations of get, or calls of the items closure, so far
    ret,         \* Slab::get: the result
    descending,  \* Slab::items: its argument
    stack,       \* Slab::items: the stack of node indices owned by the closure
    yielded,     \* indices of the leaves the closure has returned, in order
    iter,        \* "live", "ended" (the closure has returned None), "panic"
    cut,         \* number of leaves returned before the first None
    depth,       \* Orderbook::get_l2: its argument
    is_bids,     \* Orderbook.is_bids
    levels,      \* Orderbook::get_l2: the levels, << price_lots, size_lots >> each
    codec,       \* price-key codec: side, price, sequence, the key and what is read back
    wire,        \* slab decoding: the buffer, the decoded layout items, the Slab built
    queue,       \* Market::load_fills: the decoded events, the position, the fills
    parse,       \* Market::parse_fill_event: the event, the decimals, the fill
    div,         \* divide_bn_to_number: the operands, the locals, the number returned
    lots,        \* lot conversions: the market's sizes, the lots, the number, the lots back
    twin,        \* a second traversal of the same slab, from its own items() call
    cache,       \* find_open_orders_accounts_for_owner: the clock, the cache, the call
    discount,    \* find_best_fee_discount_key: the owner's accounts and the key returned
    instr,       \* Instruction: the variant packed, the bytes, the variant unpacked
    orderbook    \* Orderbook::new: the account flags and what was built

vars == << slab, pc, search_key, index, steps, ret, descending, stack, yielded,
           iter, cut, depth, is_bids, levels, codec, wire, queue, parse, div,
           lots, twin, cache, discount, instr, orderbook >>

\* the variables of the order book operations, and those of the other components
book == << slab, search_key, index, steps, ret, descending, stack, yielded,
           iter, cut, depth, is_bids, levels >>
ext == << codec, wire, queue, parse, div >>
rest == << lots, twin, cache, discount, instr, orderbook >>

NoRet == [kind |-> "-", node |-> -1]
RetNone == [kind |-> "None", node |-> -1]
RetSome(i) == [kind |-> "Some", node |-> i]
RetPanic == [kind |-> "panic", node |-> -1]

Last(s) == s[Len(s)]
Front(s) == SubSeq(s, 1, Len(s) - 1)

\* --------------------------------------------------------------- Slab::get
\* a leaf decides the search: found when the full keys are equal
LeafResult(s, i, k) == IF s.nodes[i].key = k THEN RetSome(i) ELSE RetNone

\* the prefix test of an inner node: the search key differs from node.key
\* within the first prefix_len bits
PrefixMismatch(node, k) ==
    ShiftRight(BitwiseXor(node.key, k), KeyBits - node.prefix_len) # 0

\* ChildBit reading the bit one position too high
ChildBitAbove(node, k) == IF TestN(k, KeyBits - node.prefix_len) THEN 1 ELSE 0

\* the child an inner node sends the search key to (0 or 1)
ChildBit(node, k) == IF TestN(k, KeyBits - node.prefix_len - 1) THEN 1 ELSE 0

\* GetEntry without the check of leaf_count
GetEntryNoEmptyCheck(s, k) ==
    IF ~InArena(s, s.header.root) THEN [done |-> TRUE, ret |-> RetPanic, index |-> 0]
    ELSE IF IsLeaf(s, s.header.root)
         THEN [done |-> TRUE, ret |-> LeafResult(s, s.header.root, k), index |-> 0]
    ELSE [done |-> FALSE, ret |-> NoRet, index |-> s.header.root]

\* get up to the loop: the empty check, then the root examined as a leaf
GetEntry(s, k) ==
    IF s.header.leaf_count = 0 THEN [done |-> TRUE, ret |-> RetNone, index |-> 0]
    ELSE IF ~InArena(s, s.header.root) THEN [done |-> TRUE, ret |-> RetPanic, index |-> 0]
    ELSE IF IsLeaf(s, s.header.root)
         THEN [done |-> TRUE, ret |-> LeafResult(s, s.header.root, k), index |-> 0]
    ELSE [done |-> FALSE, ret |-> NoRet, index |-> s.header.root]

\* one iteration of the loop of get at node index i
GetLoop(s, k, i) ==
    IF ~InArena(s, i) THEN [done |-> TRUE, ret |-> RetPanic, index |-> i]
    ELSE IF IsLeaf(s, i) THEN [done |-> TRUE, ret |-> LeafResult(s, i, k), index |-> i]
    ELSE IF IsInner(s, i)
         THEN IF PrefixMismatch(s.nodes[i], k)
              THEN [done |-> TRUE, ret |-> RetNone, index |-> i]
              ELSE [done |-> FALSE, ret |-> NoRet,
                    index |-> Child(s.nodes[i], ChildBit(s.nodes[i], k))]
    ELSE [done |-> TRUE, ret |-> RetPanic, index |-> i]

\* steps counts loop iterations up to one more than the arena holds
CountStep(s, n) == IF n > Capacity(s) THEN n ELSE n + 1

GetStart(k) ==
    /\ UNCHANGED << ext, rest >>
    /\ pc = "idle"
    /\ LET r == GetEntry(slab, k)
       IN /\ pc' = IF r.done THEN "get_done" ELSE "get"
          /\ ret' = r.ret
          /\ index' = r.index
    /\ search_key' = k
    /\ steps' = 0
    /\ UNCHANGED << slab, descending, stack, yielded, iter, cut, depth, is_bids, levels >>

GetStep ==
    /\ UNCHANGED << ext, rest >>
    /\ pc = "get"
    /\ LET r == GetLoop(slab, search_key, index)
       IN /\ pc' = IF r.done THEN "get_done" ELSE "get"
          /\ ret' = r.ret
          /\ index' = r.index
    /\ steps' = CountStep(slab, steps)
    /\ UNCHANGED << slab, search_key, descending, stack, yielded, iter, cut, depth,
                    is_bids, levels >>

\* ------------------------------------------------------------- Slab::items
\* PushChildren with the two directions exchanged
PushChildrenExchanged(stk, children, desc) ==
    IF desc THEN stk \o << children[2], children[1] >>
    ELSE stk \o << children[1], children[2] >>

\* the two pushes at an inner node
\* PushChildren in the ascending order whatever the direction asked for
PushChildrenAscending(stk, children, desc) == stk \o << children[2], children[1] >>

PushChildren(stk, children, desc) ==
    IF desc THEN stk \o << children[1], children[2] >>
    ELSE stk \o << children[2], children[1] >>

\* ItemsClosure as a `while let` loop: a call goes on popping until it
\* finds a leaf or the stack is empty (at most fuel pops)
RECURSIVE ItemsClosureLoopFrom(_, _, _, _)
ItemsClosureLoopFrom(s, stk, desc, fuel) ==
    IF stk = << >> \/ fuel = 0 THEN [ret |-> "none", node |-> -1, stack |-> stk]
    ELSE LET i == Last(stk) IN
         IF ~InArena(s, i) THEN [ret |-> "panic", node |-> -1, stack |-> stk]
         ELSE IF IsLeaf(s, i) THEN [ret |-> "some", node |-> i, stack |-> Front(stk)]
         ELSE IF IsInner(s, i)
              THEN ItemsClosureLoopFrom(
                       s, PushChildren(Front(stk), s.nodes[i].children, desc), desc, fuel - 1)
         ELSE ItemsClosureLoopFrom(s, Front(stk), desc, fuel - 1)

ItemsClosureLoop(s, stk, desc) == ItemsClosureLoopFrom(s, stk, desc, 2 * Capacity(s))

\* One call of the closure handed to from_fn: the top of the stack is read
\* and popped; a leaf is returned; the children of an inner node are pushed
\* and None is returned; any other node, and an empty stack, give None.
ItemsClosure(s, stk, desc) ==
    IF stk = << >> THEN [ret |-> "none", node |-> -1, stack |-> stk]
    ELSE LET i == Last(stk) IN
         IF ~InArena(s, i) THEN [ret |-> "panic", node |-> -1, stack |-> stk]
         ELSE IF IsLeaf(s, i) THEN [ret |-> "some", node |-> i, stack |-> Front(stk)]
         ELSE IF IsInner(s, i)
              THEN [ret |-> "none", node |-> -1,
                    stack |-> PushChildren(Front(stk), s.nodes[i].children, desc)]
         ELSE [ret |-> "none", node |-> -1, stack |-> Front(stk)]

\* the state of an iterator after one call of next()
AfterNext(r) ==
    /\ stack' = r.stack
    /\ yielded' = IF r.ret = "some" THEN Append(yielded, r.node) ELSE yielded
    /\ cut' = IF r.ret = "some" /\ iter = "live" THEN cut + 1 ELSE cut
    /\ iter' = CASE r.ret = "panic" -> "panic"
                 [] r.ret = "none" -> "ended"
                 [] OTHER -> iter

ItemsStart(desc) ==
    /\ UNCHANGED << ext, rest >>
    /\ pc = "idle"
    /\ pc' = "items"
    /\ descending' = desc
    /\ stack' = << slab.header.root >>
    /\ yielded' = << >>
    /\ iter' = "live"
    /\ cut' = 0
    /\ steps' = 0
    /\ UNCHANGED << slab, search_key, index, ret, depth, is_bids, levels >>

\* A consumer calls next().  from_fn is not fused: the closure runs again
\* when next() is called after a None.  The consumer of the model calls it
\* at most Capacity + 1 times.
\* ItemsNext taking the leaf it returns out of the arena
ItemsNextConsuming ==
    /\ UNCHANGED << ext, rest >>
    /\ pc = "items"
    /\ iter # "panic"
    /\ steps <= Capacity(slab)
    /\ LET r == ItemsClosure(slab, stack, descending)
       IN /\ AfterNext(r)
          /\ slab' = IF r.ret = "some" THEN SetNode(slab, r.node, Uninitialized) ELSE slab
    /\ steps' = steps + 1
    /\ UNCHANGED << pc, search_key, index, ret, descending, depth, is_bids, levels >>

ItemsNext ==
    /\ UNCHANGED << ext, rest >>
    /\ pc = "items"
    /\ iter # "panic"
    /\ steps <= Capacity(slab)
    /\ AfterNext(ItemsClosure(slab, stack, descending))
    /\ steps' = steps + 1
    /\ UNCHANGED << slab, pc, search_key, index, ret, descending, depth, is_bids, levels >>

\* ------------------------------------------------------ Orderbook::get_l2
\* L2Body breaking only when the levels outnumber depth
L2BodyLateBreak(lv, d, price, quantity) ==
    IF lv # << >> /\ Last(lv)[1] = price
    THEN [brk |-> FALSE, levels |-> [lv EXCEPT ![Len(lv)][2] = @ + quantity]]
    ELSE IF Len(lv) > d THEN [brk |-> TRUE, levels |-> lv]
    ELSE [brk |-> FALSE, levels |-> Append(lv, << price, quantity >>)]

\* L2Body opening a level with the fields of the pair exchanged
L2BodyPairExchanged(lv, d, price, quantity) ==
    IF lv # << >> /\ Last(lv)[1] = price
    THEN [brk |-> FALSE, levels |-> [lv EXCEPT ![Len(lv)][2] = @ + quantity]]
    ELSE IF Len(lv) = d THEN [brk |-> TRUE, levels |-> lv]
    ELSE [brk |-> FALSE, levels |-> Append(lv, << quantity, price >>)]

\* the body of the for loop for one leaf: merge into the last level, break,
\* or open a new level
L2Body(lv, d, price, quantity) ==
    IF lv # << >> /\ Last(lv)[1] = price
    THEN [brk |-> FALSE, levels |-> [lv EXCEPT ![Len(lv)][2] = @ + quantity]]
    ELSE IF Len(lv) = d THEN [brk |-> TRUE, levels |-> lv]
    ELSE [brk |-> FALSE, levels |-> Append(lv, << price, quantity >>)]

\* L2Start walking the slab in ascending order for the bids as well
L2StartAscending(d, b) ==
    /\ UNCHANGED << ext, rest >>
    /\ pc = "idle"
    /\ pc' = "l2"
    /\ depth' = d
    /\ is_bids' = b
    /\ descending' = FALSE
    /\ levels' = << >>
    /\ stack' = << slab.header.root >>
    /\ yielded' = << >>
    /\ iter' = "live"
    /\ cut' = 0
    /\ steps' = 0
    /\ UNCHANGED << slab, search_key, index, ret >>

L2Start(d, b) ==
    /\ UNCHANGED << ext, rest >>
    /\ pc = "idle"
    /\ pc' = "l2"
    /\ depth' = d
    /\ is_bids' = b
    /\ descending' = b
    /\ levels' = << >>
    /\ stack' = << slab.header.root >>
    /\ yielded' = << >>
    /\ iter' = "live"
    /\ cut' = 0
    /\ steps' = 0
    /\ UNCHANGED << slab, search_key, index, ret >>

\* One turn of `for item in self.slab.items(descending)`: next() is called;
\* None ends the loop, a leaf runs the body.
L2Step ==
    /\ UNCHANGED << ext, rest >>
    /\ pc = "l2"
    /\ LET r == ItemsClosure(slab, stack, descending)
           b == L2Body(levels, depth, get_price_from_key(slab.nodes[r.node].key),
                       slab.nodes[r.node].quantity)
       IN /\ AfterNext(r)
          /\ IF r.ret = "some"
             THEN /\ levels' = b.levels
                  /\ pc' = IF b.brk THEN "l2_done" ELSE "l2"
             ELSE /\ levels' = levels
                  /\ pc' = "l2_done"
    /\ steps' = steps + 1
    /\ UNCHANGED << slab, search_key, index, ret, descending, depth, is_bids >>

\* the call returns, or the iterator is dropped
Return ==
    /\ UNCHANGED << ext, rest >>
    /\ pc \in {"get_done", "items", "l2_done"}
    /\ pc' = "idle"
    /\ search_key' = 0
    /\ index' = 0
    /\ steps' = 0
    /\ ret' = NoRet
    /\ descending' = FALSE
    /\ stack' = << >>
    /\ yielded' = << >>
    /\ iter' = "live"
    /\ cut' = 0
    /\ depth' = 0
    /\ is_bids' = FALSE
    /\ levels' = << >>
    /\ UNCHANGED slab

\* ------------------------------------------- the other components, at rest
NoEvent == [flags |-> {}, native_quantity_paid |-> 0,
            native_quantity_released |-> 0, native_fee_or_rebate |-> 0]
CodecIdle == [key |-> 0, is_bids |-> FALSE, price_lots |-> 0, side |-> "-"]
WireIdle == [buffer |-> [header |-> << >>, tags |-> << >>, tail |-> FALSE],
             data |-> [kind |-> "-", items |-> << >>, nodes |-> << >>],
             out |-> [kind |-> "-", header |-> << >>, nodes |-> << >>]]
QueueIdle == [events |-> << >>, pos |-> 0, fills |-> << >>]
ParseIdle == [event |-> NoEvent, base_decimals |-> 0, quote_decimals |-> 0,
              fill |-> [kind |-> "-", side |-> "-", price |-> << 0, 0 >>,
                        size |-> << 0, 0 >>, fee_cost |-> << 0, 0 >>,
                        event |-> NoEvent]]
DivIdle == [numerator |-> 0, denominator |-> 1, temp_numerator |-> 0,
            temp_denominator |-> 1, numerator_shift |-> 0,
            denominator_shift |-> 0, result |-> << 0, 0 >>]
LotsIdle == [op |-> "-", from |-> "-", base_lot_size |-> 1, quote_lot_size |-> 1,
             base_decimals |-> 0, quote_decimals |-> 0, lot |-> 0,
             number |-> << 0, 1 >>, result |-> [kind |-> "-", value |-> 0]]
TwinIdle == [at |-> "-", descending |-> FALSE, stack |-> << >>, yielded |-> << >>,
             iter |-> "live", cut |-> 0, steps |-> 0]
NoEntry == [present |-> FALSE, accounts |-> 0, ts |-> 0]
Owners == {"owner_a", "owner_b"}
CacheIdle == [entries |-> [o \in Owners |-> NoEntry],
              before |-> [o \in Owners |-> NoEntry],
              op |-> "-", owner |-> "-", cache_duration_ms |-> 0, now |-> 0,
              fetched |-> 0, kind |-> "-", returned |-> 0, created |-> FALSE]
DefaultKey == [pubkey |-> 0, fee_tier |-> 0]
DiscountIdle == [entry |-> [present |-> FALSE, accounts |-> << >>, ts |-> 0],
                 op |-> "-", kind |-> "-", accounts |-> << >>, best |-> DefaultKey]
InstrIdle == [variant |-> "-", payload |-> << >>,
              packed |-> [kind |-> "-", bytes |-> << >>],
              unpacked |-> [kind |-> "-", variant |-> "-"]]
OrderbookIdle == [at |-> "-", account_flags |-> {}, result |-> "-", error |-> "",
                  is_bids |-> FALSE]

\* the order book operations, at rest on an empty slab
EmptySlab ==
    [header |-> [bump_index |-> 0, free_list_len |-> 0, free_list_head |-> 0,
                 root |-> 0, leaf_count |-> 0],
     nodes |-> << >>]

Init ==
    /\ slab \in Slabs
    /\ pc = "idle"
    /\ search_key = 0
    /\ index = 0
    /\ steps = 0
    /\ ret = NoRet
    /\ descending = FALSE
    /\ stack = << >>
    /\ yielded = << >>
    /\ iter = "live"
    /\ cut = 0
    /\ depth = 0
    /\ is_bids = FALSE
    /\ levels = << >>
    /\ codec = CodecIdle
    /\ wire = WireIdle
    /\ queue = QueueIdle
    /\ parse = ParseIdle
    /\ div = DivIdle
    /\ lots = LotsIdle
    /\ twin = TwinIdle
    /\ cache = CacheIdle
    /\ discount = DiscountIdle
    /\ instr = InstrIdle
    /\ orderbook = OrderbookIdle

Next ==
    \/ \E k \in Keys : GetStart(k)
    \/ GetStep
    \/ \E desc \in BOOLEAN : ItemsStart(desc)
    \/ ItemsNext
    \/ \E d \in 0 .. MaxDepth, b \in BOOLEAN : L2Start(d, b)
    \/ L2Step
    \/ Return

Spec == Init /\ [][Next]_vars

\* ------------------------------------------------------------- properties
\* the price a key decodes to, and the sequence the for-loop consumer of an
\* iterator sees: the leaves returned before the first None
DecodedPrice(key) == key \div (2 ^ PriceShift)
Sequence == SubSeq(yielded, 1, cut)

RECURSIVE SumQuantity(_, _)
SumQuantity(s, L) ==
    IF L = {} THEN 0
    ELSE LET l == CHOOSE x \in L : TRUE
         IN s.nodes[l].quantity + SumQuantity(s, L \ {l})

\* C1: on a well-formed slab with leaf_count > 0, get returns the leaf whose
\* key equals the search key when the tree holds one, and None otherwise.
C1_GetFindsKey ==
    (pc = "get_done" /\ slab.header.leaf_count > 0 /\ WellFormed(slab)) =>
        LET hits == {l \in ReachableLeaves(slab) : slab.nodes[l].key = search_key}
        IN IF hits = {} THEN ret = RetNone ELSE ret.kind = "Some" /\ ret.node \in hits

\* a key found below two inner nodes of a well-formed slab
C1_Witness ==
    /\ pc = "get_done" /\ WellFormed(slab) /\ steps >= 3
    /\ ret.kind = "Some" /\ slab.nodes[ret.node].key = search_key

\* C2 (as claimed): on a well-formed slab with leaf_count > 0 the sequence of
\* items is exactly the leaves reachable from the root, each once.
C2_YieldsEveryReachableLeaf ==
    (pc = "items" /\ iter = "ended" /\ slab.header.leaf_count > 0 /\ WellFormed(slab)) =>
        /\ {Sequence[i] : i \in 1 .. Len(Sequence)} = ReachableLeaves(slab)
        /\ Len(Sequence) = Cardinality(ReachableLeaves(slab))

\* C3: on a well-formed slab the leaves returned by items(false) have
\* non-decreasing decoded price, those returned by items(true) non-increasing;
\* stated of every leaf the closure returns, also after a None.
C3_PriceMonotone ==
    (pc = "items" /\ WellFormed(slab)) =>
        \A i, j \in 1 .. Len(yielded) :
            i < j =>
                LET pi == DecodedPrice(slab.nodes[yielded[i]].key)
                    pj == DecodedPrice(slab.nodes[yielded[j]].key)
                IN IF descending THEN pi >= pj ELSE pi <= pj

\* three leaves returned in ascending order, the price rising on the way
C3_Witness ==
    /\ pc = "items" /\ WellFormed(slab) /\ ~descending /\ Len(yielded) = 3
    /\ DecodedPrice(slab.nodes[yielded[1]].key) < DecodedPrice(slab.nodes[yielded[3]].key)

\* C4 (as claimed): get makes at most Capacity descent steps on any slab and
\* never panics.
C4_GetBoundedNoPanic ==
    (pc \in {"get", "get_done"}) => (steps <= Capacity(slab) /\ ret.kind # "panic")

\* C5 (as claimed): a traversal never panics, and when its sequence has
\* ended the stack is empty.
C5_TraversalEndsCleanly ==
    (pc = "items") => (iter # "panic" /\ (iter = "ended" => stack = << >>))

\* C6: get returns None whenever leaf_count is 0, whatever root and nodes hold.
C6_EmptyGetIsNone ==
    (pc \in {"get", "get_done"} /\ slab.header.leaf_count = 0) =>
        (pc = "get_done" /\ ret = RetNone)

\* leaf_count is 0 while root still points at a leaf with the key searched for
C6_Witness ==
    /\ pc = "get_done" /\ slab.header.leaf_count = 0
    /\ IsLeaf(slab, slab.header.root)
    /\ slab.nodes[slab.header.root].key = search_key

\* C7 (as claimed): with leaf_count = 0, items returns no leaf and get_l2 no
\* level.
C7_EmptyYieldsNothing ==
    (pc \in {"items", "l2", "l2_done"} /\ slab.header.leaf_count = 0) =>
        (yielded = << >> /\ levels = << >>)

\* C8: get_l2 holds at most depth levels, none when depth is 0.
C8_AtMostDepthLevels ==
    (pc \in {"l2", "l2_done"}) => Len(levels) <= depth

\* depth 0: a leaf arrived and the loop broke with no level
C8_Witness ==
    pc = "l2_done" /\ depth = 0 /\ Len(yielded) = 1 /\ levels = << >>

C10_LevelSizeIsSumAtPrice ==
    (pc = "l2_done" /\ WellFormed(slab)) =>
        \A i \in 1 .. Len(levels) :
            levels[i][2] =
                SumQuantity(slab, {l \in ReachableLeaves(slab) :
                                      DecodedPrice(slab.nodes[l].key) = levels[i][1]})

\* get_l2 has returned the level of the order of a well-formed slab
C10_Witness ==
    /\ pc = "l2_done" /\ WellFormed(slab) /\ Len(levels) = 1
    /\ levels[1][2] = slab.nodes[yielded[1]].quantity

\* the first d distinct prices of the tree in execution priority (rising for
\* asks, falling for bids), each with the sum of the quantities at that price
RECURSIVE BestLevels(_, _, _, _)
BestLevels(s, P, bids, d) ==
    IF P = {} \/ d = 0 THEN << >>
    ELSE LET best == IF bids THEN Max(P)
                     ELSE CHOOSE x \in P : \A y \in P : x <= y
             size == SumQuantity(s, {l \in ReachableLeaves(s) :
                                        DecodedPrice(s.nodes[l].key) = best})
         IN << << best, size >> >> \o BestLevels(s, P \ {best}, bids, d - 1)

\* C11 (as claimed): depth counts distinct price levels: on a well-formed
\* slab get_l2 returns the first depth price levels, every leaf at one of
\* those prices merged into its level (asks (100,5), (100,3), (101,7) with
\* depth 2 give [(100,8), (101,7)]).
C11_DepthCountsPriceLevels ==
    (pc = "l2_done" /\ WellFormed(slab)) =>
        levels = BestLevels(slab,
                            {DecodedPrice(slab.nodes[l].key) : l \in ReachableLeaves(slab)},
                            is_bids, depth)

PriceBits == KeyBits - PriceShift
Prices == 0 .. (2 ^ PriceBits) - 1
SequenceNumbers == 0 .. (2 ^ PriceShift) - 1

\* Orderbook::items, the closure mapping one leaf to an Order: the price is
\* read from the key, the side from the book
OrderOfKey(key, bids) ==
    /\ pc = "idle"
    /\ pc' = "order"
    /\ codec' = [key |-> key, is_bids |-> bids,
                 price_lots |-> get_price_from_key(key),
                 side |-> IF bids THEN "Buy" ELSE "Sell"]
    /\ UNCHANGED << book, wire, queue, parse, div, rest >>

\* ------------------------------------------------------- the slab decoder
MaxRecords == 2
MaxField == 1
KnownTags == 0 .. 4
UnknownTag == Max(KnownTags) + 1

\* A buffer is the seven items of the header, the tag of every whole node
\* record that follows, and whether bytes of an incomplete record trail them.
RECURSIVE SeqsUpTo(_, _)
SeqsUpTo(S, n) ==
    IF n = 0 THEN {<< >>}
    ELSE LET shorter == SeqsUpTo(S, n - 1)
         IN shorter \cup {Append(q, x) : q \in {r \in shorter : Len(r) = n - 1}, x \in S}

Headers ==
    {<< b, 0, fl, 0, fh, r, lc >> :
        b \in 0 .. MaxRecords + 1, fl \in 0 .. MaxField, fh \in 0 .. MaxField,
        r \in 0 .. MaxField, lc \in 0 .. MaxField}

Buffers ==
    {[header |-> h, tags |-> g, tail |-> e] :
        h \in Headers, g \in SeqsUpTo(KnownTags \cup {UnknownTag}, MaxRecords),
        e \in BOOLEAN}

\* slab_node_layout: the tag selects the layout of the record; a tag with no
\* arm either aborts the decoding or leaves the record as the 68-byte blob
NodeOfTag(tag, lenient) ==
    IF tag \in KnownTags THEN [kind |-> "ok", tag |-> tag, layout |-> "variant"]
    ELSE IF lenient THEN [kind |-> "ok", tag |-> tag, layout |-> "blob"]
    ELSE [kind |-> "panic", tag |-> tag, layout |-> "-"]

\* slab_layout: the header, then as many node records as the header's first
\* item (bumpIndex) says; reading a record the buffer does not hold aborts
SlabLayoutDecode(buf, lenient) ==
    LET count == buf.header[1]
    IN IF count > Len(buf.tags)
       THEN [kind |-> "panic", items |-> << >>, nodes |-> << >>]
       ELSE LET nodes == [i \in 1 .. count |-> NodeOfTag(buf.tags[i], lenient)]
            IN IF \E i \in 1 .. count : nodes[i].kind = "panic"
               THEN [kind |-> "panic", items |-> << >>, nodes |-> << >>]
               ELSE [kind |-> "ok", items |-> buf.header, nodes |-> nodes]

\* the items the decoder closure indexes: those of the header, then the nodes
ItemCount(data) == Len(data.items) + 1

\* setLayoutDecoder's closure: data[0], data[2], data[5], data[6], data[8];
\* an index past the last item aborts
SlabOfData(data) ==
    IF 8 >= ItemCount(data)
    THEN [kind |-> "panic", header |-> << >>, nodes |-> << >>]
    ELSE [kind |-> "Slab",
          header |-> [bump_index |-> data.items[0 + 1], free_list_len |-> data.items[2 + 1],
                      free_list_head |-> data.items[5 + 1], root |-> data.items[6 + 1],
                      leaf_count |-> data.items[8 + 1]],
          nodes |-> data.nodes]

DecodeStart ==
    /\ pc = "idle"
    /\ pc' = "layout"
    /\ \E buf \in Buffers : wire' = [wire EXCEPT !.buffer = buf]
    /\ UNCHANGED << book, codec, queue, parse, div, rest >>

\* the layout's own decode runs first; the closure is not reached when it aborts
LayoutStep ==
    /\ pc = "layout"
    /\ \E lenient \in BOOLEAN :
          LET d == SlabLayoutDecode(wire.buffer, lenient)
          IN /\ wire' = [wire EXCEPT !.data = d]
             /\ pc' = IF d.kind = "ok" THEN "closure" ELSE "layout_failed"
    /\ UNCHANGED << book, codec, queue, parse, div, rest >>

ClosureStep ==
    /\ pc = "closure"
    /\ pc' = "slab_decoded"
    /\ wire' = [wire EXCEPT !.out = SlabOfData(wire.data)]
    /\ UNCHANGED << book, codec, queue, parse, div, rest >>

InitFormat ==
    /\ slab = EmptySlab
    /\ pc = "idle"
    /\ search_key = 0
    /\ index = 0
    /\ steps = 0
    /\ ret = NoRet
    /\ descending = FALSE
    /\ stack = << >>
    /\ yielded = << >>
    /\ iter = "live"
    /\ cut = 0
    /\ depth = 0
    /\ is_bids = FALSE
    /\ levels = << >>
    /\ codec = CodecIdle
    /\ wire = WireIdle
    /\ queue = QueueIdle
    /\ parse = ParseIdle
    /\ div = DivIdle
    /\ lots = LotsIdle
    /\ twin = TwinIdle
    /\ cache = CacheIdle
    /\ discount = DiscountIdle
    /\ instr = InstrIdle
    /\ orderbook = OrderbookIdle

NextFormat ==
    \/ \E key \in Keys, bids \in BOOLEAN : OrderOfKey(key, bids)
    \/ DecodeStart
    \/ LayoutStep
    \/ ClosureStep

SpecFormat == InitFormat /\ [][NextFormat]_vars

\* the key the specification builds for an order: the price in the upper half
\* and the sequence number in the lower, the price bits complemented on the
\* descending-priority side
encode(side, p, s) ==
    IF side = "asks" THEN p * (2 ^ PriceShift) + s
    ELSE ((2 ^ PriceBits) - 1 - p) * (2 ^ PriceShift) + s

SideOf(bids) == IF bids THEN "bids" ELSE "asks"

Malformed(buf) ==
    \/ buf.tail
    \/ buf.header[1] > Len(buf.tags)
    \/ \E i \in 1 .. Len(buf.tags) : buf.tags[i] \notin KnownTags

\* C14 (as claimed): decoding a malformed buffer ends in a FormatError, never
\* in a panic or a silent default, and decoding any other buffer returns as
\* many nodes as the buffer holds whole records after the header.
C14_DecodeSlabChecksFormat ==
    (pc \in {"closure", "layout_failed"}) =>
        IF Malformed(wire.buffer)
        THEN wire.data.kind = "FormatError"
        ELSE wire.data.kind = "ok" /\ Len(wire.data.nodes) = Len(wire.buffer.tags)

\* C15 (as claimed): the decoded header's bump_index, free_list_len,
\* free_list_head, root and leaf_count are the 1st, 3rd, 5th, 6th and 7th
\* items of the header layout.
C15_HeaderFieldsInLayoutOrder ==
    (pc = "slab_decoded") =>
        /\ wire.out.kind = "Slab"
        /\ wire.out.header.bump_index = wire.data.items[1]
        /\ wire.out.header.free_list_len = wire.data.items[3]
        /\ wire.out.header.free_list_head = wire.data.items[5]
        /\ wire.out.header.root = wire.data.items[6]
        /\ wire.out.header.leaf_count = wire.data.items[7]

\* ------------------------------------------------- numbers of the fills
MaxQuantity == 3
MaxDecimals == 1
MaxEvents == 2

RECURSIVE Gcd(_, _)
Gcd(a, b) == IF b = 0 THEN a ELSE Gcd(b, a % b)

\* The f64 a division returns, kept exact as the fraction in lowest terms;
\* << 1, 0 >> is the infinity of n / 0 and << 0, 0 >> the NaN of 0 / 0.
Quotient(n, d) ==
    LET g == Gcd(n, d)
    IN IF g = 0 THEN << 0, 0 >> ELSE << n \div g, d \div g >>

\* u128 arithmetic of the event's amounts: an overflowing operation aborts
\* where overflow is checked and wraps where it is not
WordModulus == 2 ^ KeyBits
Word(kind, value) == [kind |-> kind, value |-> value]
CheckedAdd(a, b, checks) ==
    IF a + b < WordModulus THEN Word("ok", a + b)
    ELSE IF checks THEN Word("panic", 0) ELSE Word("ok", (a + b) % WordModulus)
CheckedSub(a, b, checks) ==
    IF a >= b THEN Word("ok", a - b)
    ELSE IF checks THEN Word("panic", 0) ELSE Word("ok", (a - b + WordModulus) % WordModulus)

EventFlags == {"FILL", "OUT", "BID", "MAKER"}
Events ==
    {[flags |-> f, native_quantity_paid |-> p, native_quantity_released |-> r,
      native_fee_or_rebate |-> fee] :
        f \in SUBSET EventFlags, p \in 0 .. MaxQuantity, r \in 0 .. MaxQuantity,
        fee \in 0 .. MaxQuantity}
Decimals == 0 .. MaxDecimals

base_spl_token_multiplier(base_decimals) == 10 ^ base_decimals
quote_spl_token_multiplier(quote_decimals) == 10 ^ quote_decimals
quote_spl_size_to_number(size, quote_decimals) ==
    Quotient(size, quote_spl_token_multiplier(quote_decimals))

NoFill == [kind |-> "-", side |-> "-", price |-> << 0, 0 >>, size |-> << 0, 0 >>,
           fee_cost |-> << 0, 0 >>, event |-> NoEvent]
FillPanic == [NoFill EXCEPT !.kind = "panic"]

\* ---------------------------------------------- Market::parse_fill_event
PriceBeforeFeesBuy(event, checks) ==
    IF "MAKER" \in event.flags
    THEN CheckedAdd(event.native_quantity_paid, event.native_fee_or_rebate, checks)
    ELSE CheckedSub(event.native_quantity_paid, event.native_fee_or_rebate, checks)

PriceBeforeFeesSell(event, checks) ==
    IF "MAKER" \in event.flags
    THEN CheckedSub(event.native_quantity_released, event.native_fee_or_rebate, checks)
    ELSE CheckedAdd(event.native_quantity_released, event.native_fee_or_rebate, checks)

\* FeeCost negating the taker's fee instead of the maker's
FeeCostTakerNegated(event, quote_decimals) ==
    LET number == quote_spl_size_to_number(event.native_fee_or_rebate, quote_decimals)
    IN << number[1] * (IF "MAKER" \in event.flags THEN 1 ELSE -1), number[2] >>

FeeCost(event, quote_decimals) ==
    LET number == quote_spl_size_to_number(event.native_fee_or_rebate, quote_decimals)
    IN << number[1] * (IF "MAKER" \in event.flags THEN -1 ELSE 1), number[2] >>

parse_fill_event(event, base_decimals, quote_decimals, checks) ==
    LET bid == "BID" \in event.flags
        price_before_fees == IF bid THEN PriceBeforeFeesBuy(event, checks)
                             ELSE PriceBeforeFeesSell(event, checks)
        base == IF bid THEN event.native_quantity_released
                ELSE event.native_quantity_paid
    IN IF price_before_fees.kind = "panic" THEN FillPanic
       ELSE [kind |-> "fill",
             side |-> IF bid THEN "buy" ELSE "sell",
             price |-> Quotient(price_before_fees.value
                                    * base_spl_token_multiplier(base_decimals),
                                quote_spl_token_multiplier(quote_decimals) * base),
             size |-> Quotient(base, base_spl_token_multiplier(base_decimals)),
             fee_cost |-> FeeCost(event, quote_decimals),
             event |-> event]

ParseStart ==
    /\ pc = "idle"
    /\ pc' = "parse"
    /\ \E event \in Events, bd \in Decimals, qd \in Decimals :
          parse' = [parse EXCEPT !.event = event, !.base_decimals = bd,
                                 !.quote_decimals = qd]
    /\ UNCHANGED << book, codec, wire, queue, div, rest >>

ParseStep ==
    /\ pc = "parse"
    /\ pc' = "parsed"
    /\ \E checks \in BOOLEAN :
          parse' = [parse EXCEPT !.fill = parse_fill_event(parse.event, parse.base_decimals,
                                                           parse.quote_decimals, checks)]
    /\ UNCHANGED << book, codec, wire, queue, div, rest >>

\* --------------------------------------------------- Market::load_fills
\* the events of the decoded queue: every set of flags, paid zero or not, the
\* fee zero or above the amounts
QueueEvents ==
    {e \in Events : e.native_quantity_paid <= 1 /\ e.native_quantity_released = 1
                    /\ e.native_fee_or_rebate \in {0, 2}}

\* the filter passing every event flagged FILL
IsFillEventAnyPaid(event) == "FILL" \in event.flags

\* the filter of load_fills
IsFillEvent(event) == "FILL" \in event.flags /\ event.native_quantity_paid > 0

LoadStart ==
    /\ pc = "idle"
    /\ pc' = "load"
    /\ \E events \in SeqsUpTo(QueueEvents, MaxEvents) :
          queue' = [events |-> events, pos |-> 0, fills |-> << >>]
    /\ UNCHANGED << book, codec, wire, parse, div, rest >>

\* the iterator chain takes the next event: dropped by the filter, or mapped
\* by parse_fill_event
LoadStep ==
    /\ pc = "load"
    /\ queue.pos < Len(queue.events)
    /\ LET event == queue.events[queue.pos + 1]
       IN IF IsFillEvent(event)
          THEN \E checks \in BOOLEAN :
                  LET f == parse_fill_event(event, parse.base_decimals,
                                            parse.quote_decimals, checks)
                  IN IF f.kind = "panic"
                     THEN /\ pc' = "load_failed"
                          /\ queue' = [queue EXCEPT !.pos = @ + 1]
                     ELSE /\ pc' = pc
                          /\ queue' = [queue EXCEPT !.pos = @ + 1,
                                                    !.fills = Append(@, f)]
          ELSE /\ pc' = pc
               /\ queue' = [queue EXCEPT !.pos = @ + 1]
    /\ UNCHANGED << book, codec, wire, parse, div, rest >>

\* collect(): the chain is exhausted
LoadCollect ==
    /\ pc = "load"
    /\ queue.pos = Len(queue.events)
    /\ pc' = "loaded"
    /\ UNCHANGED << book, codec, wire, queue, parse, div, rest >>

InitFills ==
    /\ slab = EmptySlab
    /\ pc = "idle"
    /\ search_key = 0
    /\ index = 0
    /\ steps = 0
    /\ ret = NoRet
    /\ descending = FALSE
    /\ stack = << >>
    /\ yielded = << >>
    /\ iter = "live"
    /\ cut = 0
    /\ depth = 0
    /\ is_bids = FALSE
    /\ levels = << >>
    /\ codec = CodecIdle
    /\ wire = WireIdle
    /\ queue = QueueIdle
    /\ parse = ParseIdle
    /\ div = DivIdle
    /\ lots = LotsIdle
    /\ twin = TwinIdle
    /\ cache = CacheIdle
    /\ discount = DiscountIdle
    /\ instr = InstrIdle
    /\ orderbook = OrderbookIdle

NextFills ==
    \/ ParseStart
    \/ ParseStep
    \/ LoadStart
    \/ LoadStep
    \/ LoadCollect

SpecFills == InitFills /\ [][NextFills]_vars

HasFillFlagAndPaid(event) == "FILL" \in event.flags /\ event.native_quantity_paid > 0

\* C16: the fills load_fills returns are those of exactly the events with the
\* FILL flag and a paid quantity above zero, in queue order.
C16_FillsAreFilteredEvents ==
    (pc = "loaded") =>
        /\ \A i \in 1 .. Len(queue.fills) : queue.fills[i].kind = "fill"
        /\ [i \in 1 .. Len(queue.fills) |-> queue.fills[i].event]
               = SelectSeq(queue.events, HasFillFlagAndPaid)

\* a queue of two events: a FILL event that paid nothing, dropped, and an
\* event after it that is kept
C16_Witness ==
    /\ pc = "loaded" /\ Len(queue.events) = 2 /\ Len(queue.fills) = 1
    /\ "FILL" \in queue.events[1].flags /\ queue.events[1].native_quantity_paid = 0
    /\ queue.fills[1].event = queue.events[2]

\* the price or size the claims give, against the fraction the code returned
SameNumber(number, n, d) == (d # 0) => (number[2] # 0 /\ number[1] * d = n * number[2])

\* C17 (as claimed): a fill of an event with the BID flag is a "buy" whose
\* price is (paid + fee for a maker, paid - fee for a taker) * 10^base_decimals
\* / (10^quote_decimals * released) and whose size is released / 10^base_decimals.
C17_BuyFillFormula ==
    (pc = "parsed" /\ parse.fill.kind = "fill" /\ HasFillFlagAndPaid(parse.event)
        /\ "BID" \in parse.event.flags) =>
        LET e == parse.event
            effective == IF "MAKER" \in e.flags
                         THEN e.native_quantity_paid + e.native_fee_or_rebate
                         ELSE e.native_quantity_paid - e.native_fee_or_rebate
        IN /\ parse.fill.side = "buy"
           /\ SameNumber(parse.fill.price, effective * (10 ^ parse.base_decimals),
                         (10 ^ parse.quote_decimals) * e.native_quantity_released)
           /\ SameNumber(parse.fill.size, e.native_quantity_released,
                         10 ^ parse.base_decimals)

\* C18 (as claimed): a fill of an event without the BID flag is a "sell" whose
\* price is (released - fee for a maker, released + fee for a taker)
\* * 10^base_decimals / (10^quote_decimals * paid) and whose size is
\* paid / 10^base_decimals.
C18_SellFillFormula ==
    (pc = "parsed" /\ parse.fill.kind = "fill" /\ HasFillFlagAndPaid(parse.event)
        /\ "BID" \notin parse.event.flags) =>
        LET e == parse.event
            effective == IF "MAKER" \in e.flags
                         THEN e.native_quantity_released - e.native_fee_or_rebate
                         ELSE e.native_quantity_released + e.native_fee_or_rebate
        IN /\ parse.fill.side = "sell"
           /\ SameNumber(parse.fill.price, effective * (10 ^ parse.base_decimals),
                         (10 ^ parse.quote_decimals) * e.native_quantity_paid)
           /\ SameNumber(parse.fill.size, e.native_quantity_paid,
                         10 ^ parse.base_decimals)

NumBits == 6
MantissaBits == 4
Operands == 0 .. (2 ^ NumBits) - 1

RECURSIVE bit_length(_)
bit_length(x) == IF x = 0 THEN 0 ELSE 1 + bit_length(x \div 2)

\* the zero bits above the highest set bit of a NumBits-wide operand
leading_zeros(x) == NumBits - bit_length(x)

Fits(n, d) == bit_length(n) <= MantissaBits /\ bit_length(d) <= MantissaBits

\* exponent_bias * (n / d), with exponent_bias = 2 ^ (ns - ds)
Biased(ns, ds, n, d) ==
    IF ns >= ds THEN Quotient(n * (2 ^ (ns - ds)), d)
    ELSE Quotient(n, d * (2 ^ (ds - ns)))

DivStart ==
    /\ pc = "idle"
    /\ pc' = "div"
    /\ \E n \in Operands, d \in Operands \ {0} :
          div' = [DivIdle EXCEPT !.numerator = n, !.denominator = d,
                                 !.temp_numerator = n, !.temp_denominator = d]
    /\ UNCHANGED << book, codec, wire, queue, parse, rest >>

\* both operands within the mantissa: divide them as they are
DivDirect ==
    /\ pc = "div"
    /\ IF Fits(div.numerator, div.denominator)
       THEN /\ pc' = "div_done"
            /\ div' = [div EXCEPT !.result = Quotient(div.numerator, div.denominator)]
       ELSE /\ pc' = "div_gcd"
            /\ div' = div
    /\ UNCHANGED << book, codec, wire, queue, parse, rest >>

\* divide both by their gcd, and return if that made them fit
DivGcd ==
    /\ pc = "div_gcd"
    /\ LET gcd_nd == Gcd(div.numerator, div.denominator)
           tn == div.numerator \div gcd_nd
           td == div.denominator \div gcd_nd
       IN IF Fits(tn, td)
          THEN /\ pc' = "div_done"
               /\ div' = [div EXCEPT !.temp_numerator = tn, !.temp_denominator = td,
                                     !.result = Quotient(tn, td)]
          ELSE /\ pc' = "div_shift"
               /\ div' = [div EXCEPT !.temp_numerator = tn, !.temp_denominator = td]
    /\ UNCHANGED << book, codec, wire, queue, parse, rest >>

\* shift each operand right by its leading_zeros()
DivShift ==
    /\ pc = "div_shift"
    /\ pc' = "div_shifted"
    /\ LET numerator_shift == leading_zeros(div.temp_numerator)
           denominator_shift == leading_zeros(div.temp_denominator)
       IN div' = [div EXCEPT
                    !.numerator_shift = numerator_shift,
                    !.denominator_shift = denominator_shift,
                    !.temp_numerator = IF numerator_shift > 0
                                       THEN ShiftRight(@, numerator_shift) ELSE @,
                    !.temp_denominator = IF denominator_shift > 0
                                         THEN ShiftRight(@, denominator_shift) ELSE @]
    /\ UNCHANGED << book, codec, wire, queue, parse, rest >>

\* the quotient of the shifted operands times exponent_bias, by the f64
\* division or, when an operand still does not fit, through the strings
DivBias ==
    /\ pc = "div_shifted"
    /\ pc' = "div_done"
    /\ div' = [div EXCEPT !.result = Biased(div.numerator_shift, div.denominator_shift,
                                            div.temp_numerator, div.temp_denominator)]
    /\ UNCHANGED << book, codec, wire, queue, parse, rest >>

InitDivide ==
    /\ slab = EmptySlab
    /\ pc = "idle"
    /\ search_key = 0
    /\ index = 0
    /\ steps = 0
    /\ ret = NoRet
    /\ descending = FALSE
    /\ stack = << >>
    /\ yielded = << >>
    /\ iter = "live"
    /\ cut = 0
    /\ depth = 0
    /\ is_bids = FALSE
    /\ levels = << >>
    /\ codec = CodecIdle
    /\ wire = WireIdle
    /\ queue = QueueIdle
    /\ parse = ParseIdle
    /\ div = DivIdle
    /\ lots = LotsIdle
    /\ twin = TwinIdle
    /\ cache = CacheIdle
    /\ discount = DiscountIdle
    /\ instr = InstrIdle
    /\ orderbook = OrderbookIdle

NextDivide ==
    \/ DivStart
    \/ DivDirect
    \/ DivGcd
    \/ DivShift
    \/ DivBias

SpecDivide == InitDivide /\ [][NextDivide]_vars

\* C20 (as claimed): the shift step shifts each operand right by its bit
\* length less 53, or by nothing when it fits, so that both fit afterwards.
C20_ShiftMakesOperandsFit ==
    (pc = "div_shifted") =>
        LET g == Gcd(div.numerator, div.denominator)
            rn == div.numerator \div g
            rd == div.denominator \div g
        IN /\ div.numerator_shift = Max({bit_length(rn) - MantissaBits, 0})
           /\ div.denominator_shift = Max({bit_length(rd) - MantissaBits, 0})
           /\ div.temp_numerator = ShiftRight(rn, div.numerator_shift)
           /\ div.temp_denominator = ShiftRight(rd, div.denominator_shift)
           /\ Fits(div.temp_numerator, div.temp_denominator)

\* C26 (as claimed): for an event that passes the filter of load_fills the
\* subtractions of parse_fill_event stay at or above zero: the fee is not
\* above the paid amount of a taker buy nor above the released amount of a
\* maker sell, and a fill is returned, not wrapped.
C26_NoUnderflow ==
    (pc = "parsed" /\ HasFillFlagAndPaid(parse.event)) =>
        LET e == parse.event
            bid == "BID" \in e.flags
            maker == "MAKER" \in e.flags
        IN /\ parse.fill.kind = "fill"
           /\ (bid /\ ~maker) => e.native_quantity_paid >= e.native_fee_or_rebate
           /\ (~bid /\ maker) => e.native_quantity_released >= e.native_fee_or_rebate

\* --------------------------------------- two traversals of the same slab
TwinSlabs == {MkSlab(K, 0) : K \in KeySets}

\* a second call of items(): its own stack, starting at the root
TwinStart(desc) ==
    /\ twin.at = "-"
    /\ twin' = [TwinIdle EXCEPT !.at = "items", !.descending = desc,
                                !.stack = << slab.header.root >>]
    /\ UNCHANGED << pc, book, ext, lots, cache, discount, instr, orderbook >>

\* TwinNext reading and writing the stack of the first traversal
TwinNextSharedStack ==
    /\ twin.at = "items"
    /\ twin.iter # "panic"
    /\ twin.steps <= Capacity(slab)
    /\ LET r == ItemsClosure(slab, stack, twin.descending)
       IN /\ twin' = [twin EXCEPT
                        !.yielded = IF r.ret = "some" THEN Append(@, r.node) ELSE @,
                        !.cut = IF r.ret = "some" /\ twin.iter = "live" THEN @ + 1 ELSE @,
                        !.iter = CASE r.ret = "panic" -> "panic"
                                   [] r.ret = "none" -> "ended"
                                   [] OTHER -> @,
                        !.steps = @ + 1]
          /\ stack' = r.stack
    /\ UNCHANGED << pc, slab, search_key, index, steps, ret, descending, yielded,
                    iter, cut, depth, is_bids, levels, ext, lots, cache, discount,
                    instr, orderbook >>

\* next() on the second traversal
TwinNext ==
    /\ twin.at = "items"
    /\ twin.iter # "panic"
    /\ twin.steps <= Capacity(slab)
    /\ LET r == ItemsClosure(slab, twin.stack, twin.descending)
       IN twin' = [twin EXCEPT
                     !.stack = r.stack,
                     !.yielded = IF r.ret = "some" THEN Append(@, r.node) ELSE @,
                     !.cut = IF r.ret = "some" /\ twin.iter = "live" THEN @ + 1 ELSE @,
                     !.iter = CASE r.ret = "panic" -> "panic"
                                [] r.ret = "none" -> "ended"
                                [] OTHER -> @,
                     !.steps = @ + 1]
    /\ UNCHANGED << pc, book, ext, lots, cache, discount, instr, orderbook >>

InitTwin ==
    /\ slab \in TwinSlabs
    /\ pc = "idle"
    /\ search_key = 0
    /\ index = 0
    /\ steps = 0
    /\ ret = NoRet
    /\ descending = FALSE
    /\ stack = << >>
    /\ yielded = << >>
    /\ iter = "live"
    /\ cut = 0
    /\ depth = 0
    /\ is_bids = FALSE
    /\ levels = << >>
    /\ codec = CodecIdle
    /\ wire = WireIdle
    /\ queue = QueueIdle
    /\ parse = ParseIdle
    /\ div = DivIdle
    /\ lots = LotsIdle
    /\ twin = TwinIdle
    /\ cache = CacheIdle
    /\ discount = DiscountIdle
    /\ instr = InstrIdle
    /\ orderbook = OrderbookIdle

NextTwin ==
    \/ \E desc \in BOOLEAN : ItemsStart(desc)
    \/ ItemsNext
    \/ \E desc \in BOOLEAN : TwinStart(desc)
    \/ TwinNext

SpecTwin == InitTwin /\ [][NextTwin]_vars

\* what n calls of next() return on a traversal that runs alone
RECURSIVE RunAlone(_, _, _, _)
RunAlone(s, stk, desc, n) ==
    IF n = 0 THEN << >>
    ELSE LET r == ItemsClosure(s, stk, desc)
         IN (IF r.ret = "some" THEN << r.node >> ELSE << >>)
                \o RunAlone(s, r.stack, desc, n - 1)

\* C23: whatever the interleaving, each of two traversals of one slab has
\* returned what a traversal running alone returns in as many calls.
C23_TraversalsIndependent ==
    /\ (pc = "items") =>
           yielded = RunAlone(slab, << slab.header.root >>, descending, steps)
    /\ (twin.at = "items") =>
           twin.yielded = RunAlone(slab, << slab.header.root >>, twin.descending,
                                   twin.steps)

\* both traversals under way in the same direction, at different places
C23_Witness ==
    /\ pc = "items" /\ twin.at = "items" /\ descending = twin.descending
    /\ steps >= 2 /\ twin.steps >= 4
    /\ yielded # << >> /\ Len(twin.yielded) > Len(yielded)
    /\ stack # << >>

ReverseSeq(q) == [i \in 1 .. Len(q) |-> q[Len(q) + 1 - i]]

\* the leaves below node i, those below children[0] before those below children[1]
RECURSIVE InOrder(_, _)
InOrder(s, i) ==
    IF IsLeaf(s, i) THEN << i >>
    ELSE InOrder(s, s.nodes[i].children[1]) \o InOrder(s, s.nodes[i].children[2])

\* C25: on a well-formed slab an exhausted ascending traversal has returned
\* the leaves with the children[0] subtree first at every inner node, and an
\* exhausted descending traversal has returned them in the reverse order;
\* the part returned before the first None is reversed likewise.
C25_DescendingIsReverse ==
    (pc = "items" /\ twin.at = "items" /\ ~descending /\ twin.descending
        /\ stack = << >> /\ twin.stack = << >> /\ WellFormed(slab)) =>
        /\ yielded = InOrder(slab, slab.header.root)
        /\ twin.yielded = ReverseSeq(yielded)
        /\ SubSeq(twin.yielded, 1, twin.cut) = ReverseSeq(Sequence)

\* three leaves returned both ways
C25_Witness ==
    /\ pc = "items" /\ twin.at = "items" /\ ~descending /\ twin.descending
    /\ stack = << >> /\ twin.stack = << >> /\ WellFormed(slab)
    /\ Len(yielded) = 3 /\ Len(twin.yielded) = 3 /\ yielded[1] # twin.yielded[1]

\* C24: no step of get, items or get_l2, nor their return, changes the slab:
\* its header and every node stay the decoded input for ever.
C24_SlabNeverChanges == [][slab' = slab]_vars

\* get_l2 has read the best bid of a slab and returned it
C24_Witness ==
    /\ pc = "l2_done" /\ is_bids /\ depth > 0 /\ slab.header.leaf_count > 0
    /\ levels # << >> /\ yielded # << >>

\* --------------------------------------------------------- Orderbook::new
AccountFlagNames == {"initialized", "market", "open_orders", "bids", "asks"}

\* the test of Orderbook::new accepting an account flagged bids and asks
ValidOrderbookFlagsAnySide(account_flags) ==
    "initialized" \in account_flags
        /\ ("bids" \in account_flags \/ "asks" \in account_flags)

\* initialized, and bids ^ asks
ValidOrderbookFlags(account_flags) ==
    "initialized" \in account_flags
        /\ (("bids" \in account_flags) # ("asks" \in account_flags))

OrderbookNew ==
    /\ pc = "idle"
    /\ orderbook.at = "-"
    /\ \E account_flags \in SUBSET AccountFlagNames :
          orderbook' =
              IF ~ValidOrderbookFlags(account_flags)
              THEN [at |-> "new", account_flags |-> account_flags, result |-> "Err",
                    error |-> "Invalid orderbook", is_bids |-> FALSE]
              ELSE [at |-> "new", account_flags |-> account_flags, result |-> "Ok",
                    error |-> "", is_bids |-> "bids" \in account_flags]
    /\ UNCHANGED << pc, book, ext, lots, twin, cache, discount, instr >>

\* get_l2 and items of the Orderbook that was built: self.is_bids is theirs
OrderbookGetL2(d) ==
    /\ orderbook.result = "Ok"
    /\ L2Start(d, orderbook.is_bids)

OrderbookItems(key) ==
    /\ orderbook.result = "Ok"
    /\ OrderOfKey(key, orderbook.is_bids)

InitOrderbook ==
    /\ slab \in TwinSlabs
    /\ pc = "idle"
    /\ search_key = 0
    /\ index = 0
    /\ steps = 0
    /\ ret = NoRet
    /\ descending = FALSE
    /\ stack = << >>
    /\ yielded = << >>
    /\ iter = "live"
    /\ cut = 0
    /\ depth = 0
    /\ is_bids = FALSE
    /\ levels = << >>
    /\ codec = CodecIdle
    /\ wire = WireIdle
    /\ queue = QueueIdle
    /\ parse = ParseIdle
    /\ div = DivIdle
    /\ lots = LotsIdle
    /\ twin = TwinIdle
    /\ cache = CacheIdle
    /\ discount = DiscountIdle
    /\ instr = InstrIdle
    /\ orderbook = OrderbookIdle

NextOrderbook ==
    \/ OrderbookNew
    \/ \E d \in 0 .. MaxDepth : OrderbookGetL2(d)
    \/ L2Step
    \/ \E key \in Keys : OrderbookItems(key)

SpecOrderbook == InitOrderbook /\ [][NextOrderbook]_vars

\* C30: Orderbook::new builds an Orderbook exactly when initialized is set
\* and one of bids and asks, not both; otherwise it returns "Invalid
\* orderbook"; is_bids is the bids flag, and it is the direction of get_l2
\* and the side of the orders of items.
C30_OrderbookNewChecksFlags ==
    LET f == orderbook.account_flags
        valid == "initialized" \in f
                     /\ Cardinality(f \cap {"bids", "asks"}) = 1
    IN /\ (orderbook.at = "new") =>
              IF valid
              THEN orderbook.result = "Ok" /\ orderbook.is_bids = ("bids" \in f)
              ELSE orderbook.result = "Err" /\ orderbook.error = "Invalid orderbook"
       /\ (pc \in {"l2", "l2_done"}) =>
              valid /\ descending = ("bids" \in f) /\ is_bids = ("bids" \in f)
       /\ (pc = "order") =>
              valid /\ codec.side = (IF "bids" \in f THEN "Buy" ELSE "Sell")

\* a book of the bids of a market, read downwards by get_l2
C30_Witness ==
    /\ orderbook.result = "Ok" /\ orderbook.account_flags = {"initialized", "bids"}
    /\ pc = "l2_done" /\ descending /\ yielded # << >>

\* ------------------------------------------------------------ Instruction
MaxByte == 1
PayloadLen == 3

Variants ==
    {"InitializeMarket", "NewOrder", "MatchOrders", "ConsumeEvents", "CancelOrder",
     "SettleFunds", "CancelOrderByClientId", "NewOrderV3", "CancelOrderV2",
     "CancelOrderByClientIdV2", "SendTake", "CloseOpenOrders", "InitOpenOrders",
     "Prune", "ConsumeEventsPermissioned", "CancelOrdersByClientIds",
     "ReplaceOrderByClientId", "ReplaceOrdersByClientIds"}

\* the first bytes of the serialized inner struct
Payloads == [1 .. PayloadLen -> 0 .. MaxByte]

\* the byte pack_into_slice writes for a variant: the first arm that matches;
\* -1 for a variant no arm matches
PackTag(v) ==
    CASE v = "InitializeMarket" -> 0
      [] v = "NewOrder" -> 1
      [] v = "MatchOrders" -> 2
      [] v = "ConsumeEvents" -> 3
      [] v = "CancelOrder" -> 4
      [] v = "SettleFunds" -> 5
      [] v = "CancelOrderByClientId" -> 6
      [] v = "NewOrderV3" -> 7
      [] v = "CancelOrderV2" -> 8
      [] v = "CancelOrderByClientIdV2" -> 9
      [] v = "SendTake" -> 10
      [] v = "CancelOrdersByClientIds" -> 11
      [] v = "ReplaceOrderByClientId" -> 12
      [] v = "ReplaceOrdersByClientIds" -> 13
      [] OTHER -> -1

\* one byte of tag, then the inner struct; a variant without an arm writes
\* nothing
pack_into_slice(v, payload) ==
    IF PackTag(v) < 0 THEN [kind |-> "no arm", bytes |-> << >>]
    ELSE [kind |-> "ok", bytes |-> << PackTag(v) >> \o payload]

\* the u32 borsh reads: four bytes, the lowest first
ReadU32(bytes) == bytes[1] + 256 * bytes[2] + 65536 * bytes[3] + 16777216 * bytes[4]

UnpackVariant(n) ==
    CASE n = 0 -> "InitializeMarket"
      [] n = 1 -> "NewOrder"
      [] n = 2 -> "MatchOrders"
      [] n = 3 -> "ConsumeEvents"
      [] n = 4 -> "CancelOrder"
      [] n = 5 -> "SettleFunds"
      [] n = 6 -> "CancelOrderByClientId"
      [] n = 7 -> "NewOrderV3"
      [] n = 8 -> "CancelOrderV2"
      [] n = 9 -> "CancelOrderByClientIdV2"
      [] n = 10 -> "SendTake"
      [] n = 11 -> "CloseOpenOrders"
      [] n = 12 -> "InitOpenOrders"
      [] n = 13 -> "Prune"
      [] n = 14 -> "ConsumeEventsPermissioned"
      [] n = 15 -> "ReplaceOrderByClientId"
      [] n = 16 -> "ReplaceOrdersByClientIds"
      [] OTHER -> "-"

unpack_from_slice(src) ==
    IF Len(src) < 4 THEN [kind |-> "Err", variant |-> "-"]
    ELSE LET v == UnpackVariant(ReadU32(src))
         IN IF v = "-" THEN [kind |-> "Err", variant |-> "-"]
            ELSE [kind |-> "Ok", variant |-> v]

PackStep ==
    /\ pc = "idle"
    /\ pc' = "packed"
    /\ \E v \in Variants, payload \in Payloads :
          instr' = [instr EXCEPT !.variant = v, !.payload = payload,
                                 !.packed = pack_into_slice(v, payload)]
    /\ UNCHANGED << book, ext, lots, twin, cache, discount, orderbook >>

UnpackStep ==
    /\ pc = "packed"
    /\ pc' = "unpacked"
    /\ instr' = [instr EXCEPT !.unpacked = unpack_from_slice(instr.packed.bytes)]
    /\ UNCHANGED << book, ext, lots, twin, cache, discount, orderbook >>

InitInstruction ==
    /\ slab = EmptySlab
    /\ pc = "idle"
    /\ search_key = 0
    /\ index = 0
    /\ steps = 0
    /\ ret = NoRet
    /\ descending = FALSE
    /\ stack = << >>
    /\ yielded = << >>
    /\ iter = "live"
    /\ cut = 0
    /\ depth = 0
    /\ is_bids = FALSE
    /\ levels = << >>
    /\ codec = CodecIdle
    /\ wire = WireIdle
    /\ queue = QueueIdle
    /\ parse = ParseIdle
    /\ div = DivIdle
    /\ lots = LotsIdle
    /\ twin = TwinIdle
    /\ cache = CacheIdle
    /\ discount = DiscountIdle
    /\ instr = InstrIdle
    /\ orderbook = OrderbookIdle

NextInstruction ==
    \/ PackStep
    \/ UnpackStep

SpecInstruction == InitInstruction /\ [][NextInstruction]_vars

\* C29 (as claimed): unpacking what was packed gives the variant that was
\* packed, for every variant.
C29_UnpackOfPackIsSameVariant ==
    (pc = "unpacked") =>
        instr.unpacked.kind = "Ok" /\ instr.unpacked.variant = instr.variant

\* ------------------------------- find_open_orders_accounts_for_owner
MaxDuration == 2
MaxClock == 2
MaxAccounts == 1

\* readings of the system clock, in any order: milliseconds since the epoch,
\* far above any cache duration
Durations == 0 .. MaxDuration
Times == MaxDuration .. MaxDuration + MaxClock
\* the open orders accounts of an owner, by their number
AccountLists == 0 .. MaxAccounts

\* if let Some(cache) = ... { if now - cache.ts < cache_duration_ms {...} }
\* with the u128 subtraction of the source
Fresh(entry, now, cache_duration_ms, checks) ==
    IF ~entry.present THEN "miss"
    ELSE LET age == CheckedSub(now, entry.ts, checks)
         IN IF age.kind = "panic" THEN "panic"
            ELSE IF age.value < cache_duration_ms THEN "hit" ELSE "miss"

\* the cache and the result of one call
FindResult(entries, owner, now, cache_duration_ms, fetched, checks) ==
    LET f == Fresh(entries[owner], now, cache_duration_ms, checks)
    IN CASE f = "panic" -> [kind |-> "panic", returned |-> 0, entries |-> entries]
         [] f = "hit" -> [kind |-> "cached", returned |-> entries[owner].accounts,
                          entries |-> entries]
         [] OTHER -> [kind |-> "fetched", returned |-> fetched,
                      entries |-> [entries EXCEPT ![owner] =
                                      [present |-> TRUE, accounts |-> fetched, ts |-> now]]]

find_open_orders_accounts_for_owner ==
    /\ pc \in {"idle", "cache"}
    /\ pc' = "cache"
    /\ cache.kind # "panic"
    /\ \E owner \in Owners, now \in Times, d \in Durations, fetched \in AccountLists,
          checks \in BOOLEAN :
          LET r == FindResult(cache.entries, owner, now, d, fetched, checks)
          IN cache' = [entries |-> r.entries, before |-> cache.entries, op |-> "find",
                       owner |-> owner, cache_duration_ms |-> d, now |-> now,
                       fetched |-> fetched, kind |-> r.kind, returned |-> r.returned,
                       created |-> FALSE]
    /\ UNCHANGED << book, ext, lots, twin, discount, instr, orderbook >>

\* make_place_order_transaction: the lookup, and for an owner without an
\* account the creation of one and the reset of the entry's ts
make_place_order_transaction ==
    /\ pc \in {"idle", "cache"}
    /\ pc' = "cache"
    /\ cache.kind # "panic"
    /\ \E owner \in Owners, now \in Times, d \in Durations, fetched \in AccountLists,
          checks \in BOOLEAN :
          LET r == FindResult(cache.entries, owner, now, d, fetched, checks)
              create == r.kind # "panic" /\ r.returned = 0
          IN cache' = [entries |-> IF create
                                   THEN [r.entries EXCEPT ![owner].ts = 0]
                                   ELSE r.entries,
                       before |-> cache.entries, op |-> "place",
                       owner |-> owner, cache_duration_ms |-> d, now |-> now,
                       fetched |-> fetched, kind |-> r.kind, returned |-> r.returned,
                       created |-> create]
    /\ UNCHANGED << book, ext, lots, twin, discount, instr, orderbook >>

InitCache ==
    /\ slab = EmptySlab
    /\ pc = "idle"
    /\ search_key = 0
    /\ index = 0
    /\ steps = 0
    /\ ret = NoRet
    /\ descending = FALSE
    /\ stack = << >>
    /\ yielded = << >>
    /\ iter = "live"
    /\ cut = 0
    /\ depth = 0
    /\ is_bids = FALSE
    /\ levels = << >>
    /\ codec = CodecIdle
    /\ wire = WireIdle
    /\ queue = QueueIdle
    /\ parse = ParseIdle
    /\ div = DivIdle
    /\ lots = LotsIdle
    /\ twin = TwinIdle
    /\ cache = CacheIdle
    /\ discount = DiscountIdle
    /\ instr = InstrIdle
    /\ orderbook = OrderbookIdle

NextCache ==
    \/ find_open_orders_accounts_for_owner
    \/ make_place_order_transaction

SpecCache == InitCache /\ [][NextCache]_vars

\* C27 (as claimed): a lookup made when now - ts < cache_duration_ms for the
\* owner's entry returns the cached accounts and leaves the cache as it was;
\* any other lookup fetches, stores the accounts with ts = now under that
\* owner only, and returns them; a place order that creates an account then
\* sets that owner's ts to 0.
C27_TimeToLiveCache ==
    (cache.op # "-") =>
        LET e == cache.before[cache.owner]
            hit == e.present /\ cache.now - e.ts < cache.cache_duration_ms
            looked == IF hit THEN cache.before
                      ELSE [cache.before EXCEPT ![cache.owner] =
                               [present |-> TRUE, accounts |-> cache.fetched,
                                ts |-> cache.now]]
        IN /\ cache.kind = (IF hit THEN "cached" ELSE "fetched")
           /\ cache.returned = (IF hit THEN e.accounts ELSE cache.fetched)
           /\ cache.entries = IF cache.created
                              THEN [looked EXCEPT ![cache.owner].ts = 0]
                              ELSE looked
           /\ cache.created = (cache.op = "place" /\ cache.returned = 0)

\* ------------------------------------------- find_best_fee_discount_key
MaxMsrmKeys == 1
MaxSrmKeys == 2

\* token balances of the owner's accounts, in whole tokens
MsrmBalances == {0, 1}
SrmBalances == {99, 100, 1000000}

get_fee_tier(msrm_balance, srm_balance) ==
    IF msrm_balance >= 1 THEN 6
    ELSE IF srm_balance >= 1000000 THEN 5
    ELSE IF srm_balance >= 100000 THEN 4
    ELSE IF srm_balance >= 10000 THEN 3
    ELSE IF srm_balance >= 1000 THEN 2
    ELSE IF srm_balance >= 100 THEN 1
    ELSE 0

\* the accounts the two token queries return, in the order of the chain;
\* the account's place in it stands for its public key (0 is Pubkey::default)
MsrmKeys(balances) ==
    [i \in 1 .. Len(balances) |->
        [pubkey |-> i, mint |-> "MSRM", balance |-> balances[i],
         fee_tier |-> get_fee_tier(balances[i], 0)]]

SrmKeys(balances) ==
    [i \in 1 .. Len(balances) |->
        [pubkey |-> MaxMsrmKeys + i, mint |-> "SRM", balance |-> balances[i],
         fee_tier |-> get_fee_tier(0, balances[i])]]

\* the comparator of sort_by answers Less
SortsBefore(a, b) ==
    \/ a.fee_tier > b.fee_tier
    \/ a.fee_tier = b.fee_tier /\ a.balance > b.balance

\* sort_by is a stable sort
RECURSIVE SortKeys(_)
SortKeys(keys) ==
    IF keys = << >> THEN << >>
    ELSE LET done == SortKeys(SubSeq(keys, 1, Len(keys) - 1))
             key == keys[Len(keys)]
             ahead == {i \in 1 .. Len(done) : SortsBefore(key, done[i])}
             at == IF ahead = {} THEN Len(done) + 1
                   ELSE CHOOSE i \in ahead : \A j \in ahead : i <= j
         IN SubSeq(done, 1, at - 1) \o << key >> \o SubSeq(done, at, Len(done))

\* the first element of the sorted list
FirstKey(accounts) ==
    IF accounts = << >> THEN DefaultKey
    ELSE [pubkey |-> accounts[1].pubkey, fee_tier |-> accounts[1].fee_tier]

\* accounts.iter().min_by(|a, b| a.fee_tier.cmp(&b.fee_tier)): the first of
\* the elements with the least fee_tier
MinByFeeTier(accounts) ==
    IF accounts = << >> THEN DefaultKey
    ELSE LET least == {i \in 1 .. Len(accounts) :
                          \A j \in 1 .. Len(accounts) :
                              accounts[i].fee_tier <= accounts[j].fee_tier}
             i == CHOOSE i \in least : \A j \in least : i <= j
         IN [pubkey |-> accounts[i].pubkey, fee_tier |-> accounts[i].fee_tier]

KeysResult(entry, now, cache_duration_ms, supports, msrm, srm, checks) ==
    LET f == Fresh(entry, now, cache_duration_ms, checks)
        sorted_accounts == IF supports THEN SortKeys(MsrmKeys(msrm) \o SrmKeys(srm))
                           ELSE << >>
    IN CASE f = "panic" -> [kind |-> "panic", accounts |-> << >>, entry |-> entry]
         [] f = "hit" -> [kind |-> "cached", accounts |-> entry.accounts, entry |-> entry]
         [] OTHER -> [kind |-> "fetched", accounts |-> sorted_accounts,
                      entry |-> [present |-> TRUE, accounts |-> sorted_accounts,
                                 ts |-> now]]

find_fee_discount_keys ==
    /\ pc \in {"idle", "discount"}
    /\ pc' = "discount"
    /\ discount.kind # "panic"
    /\ \E now \in Times, d \in Durations, supports \in BOOLEAN, checks \in BOOLEAN,
          msrm \in SeqsUpTo(MsrmBalances, MaxMsrmKeys),
          srm \in SeqsUpTo(SrmBalances, MaxSrmKeys) :
          LET r == KeysResult(discount.entry, now, d, supports, msrm, srm, checks)
          IN discount' = [entry |-> r.entry, op |-> "keys", kind |-> r.kind,
                          accounts |-> r.accounts, best |-> DefaultKey]
    /\ UNCHANGED << book, ext, lots, twin, cache, instr, orderbook >>

find_best_fee_discount_key ==
    /\ pc \in {"idle", "discount"}
    /\ pc' = "discount"
    /\ discount.kind # "panic"
    /\ \E now \in Times, d \in Durations, supports \in BOOLEAN, checks \in BOOLEAN,
          msrm \in SeqsUpTo(MsrmBalances, MaxMsrmKeys),
          srm \in SeqsUpTo(SrmBalances, MaxSrmKeys) :
          LET r == KeysResult(discount.entry, now, d, supports, msrm, srm, checks)
          IN discount' = [entry |-> r.entry, op |-> "best", kind |-> r.kind,
                          accounts |-> r.accounts,
                          best |-> IF r.kind = "panic" THEN DefaultKey
                                   ELSE MinByFeeTier(r.accounts)]
    /\ UNCHANGED << book, ext, lots, twin, cache, instr, orderbook >>

InitDiscount ==
    /\ slab = EmptySlab
    /\ pc = "idle"
    /\ search_key = 0
    /\ index = 0
    /\ steps = 0
    /\ ret = "-"
    /\ descending = FALSE
    /\ stack = << >>
    /\ yielded = << >>
    /\ iter = "live"
    /\ cut = 0
    /\ depth = 0
    /\ is_bids = FALSE
    /\ levels = << >>
    /\ codec = CodecIdle
    /\ wire = WireIdle
    /\ queue = QueueIdle
    /\ parse = ParseIdle
    /\ div = DivIdle
    /\ lots = LotsIdle
    /\ twin = TwinIdle
    /\ cache = CacheIdle
    /\ discount = DiscountIdle
    /\ instr = InstrIdle
    /\ orderbook = OrderbookIdle

NextDiscount ==
    \/ find_fee_discount_keys
    \/ find_best_fee_discount_key

SpecDiscount == InitDiscount /\ [][NextDiscount]_vars

\* C28 (as claimed): find_best_fee_discount_key returns the first element of
\* the list of find_fee_discount_keys, the account with the highest fee_tier,
\* and the default key with fee_tier 0 when the list is empty.
C28_BestKeyIsHighestTier ==
    (discount.op = "best" /\ discount.kind # "panic") =>
        /\ discount.best = FirstKey(discount.accounts)
        /\ \A i \in 1 .. Len(discount.accounts) :
               discount.accounts[i].fee_tier <= discount.best.fee_tier

\* ------------------------------------------------------ lot conversions
MaxLotSize == 3
MaxScale == 2

\* An f64 is kept as the fraction it stands for, in lowest terms; every
\* operation rounds its exact result to MantissaBits significant bits, ties
\* to even.
RoundHalfEven(n, d) ==
    LET q == n \div d
        r == n % d
    IN IF 2 * r < d THEN q
       ELSE IF 2 * r > d THEN q + 1
       ELSE q + (q % 2)

\* << n * up, d * down >> with the quotient in [2^(MantissaBits-1), 2^MantissaBits)
RECURSIVE Normalize(_, _, _, _)
Normalize(n, d, up, down) ==
    IF n * up < d * down * (2 ^ (MantissaBits - 1)) THEN Normalize(n, d, 2 * up, down)
    ELSE IF n * up >= d * down * (2 ^ MantissaBits) THEN Normalize(n, d, up, 2 * down)
    ELSE << up, down >>

RoundFloat(x) ==
    IF x[2] = 0 THEN x
    ELSE IF x[1] = 0 THEN << 0, 1 >>
    ELSE LET s == Normalize(x[1], x[2], 1, 1)
             m == RoundHalfEven(x[1] * s[1], x[2] * s[2])
         IN Quotient(m * s[2], s[1])

Finite(x) == x[2] # 0
NaN == << 0, 0 >>
FloatOf(n) == RoundFloat(<< n, 1 >>)
FloatMul(a, b) ==
    IF Finite(a) /\ Finite(b) THEN RoundFloat(Quotient(a[1] * b[1], a[2] * b[2]))
    ELSE NaN
FloatDiv(a, b) ==
    IF Finite(a) /\ Finite(b) THEN RoundFloat(Quotient(a[1] * b[2], a[2] * b[1]))
    ELSE NaN
\* 10_f64.powi(decimals)
Pow10(decimals) == FloatOf(10 ^ decimals)
\* f64::round: to the nearest integer, halves away from zero
FloatRound(a) == IF Finite(a) THEN << (2 * a[1] + a[2]) \div (2 * a[2]), 1 >> ELSE a
\* BN::from(f64): the integer part; no integer for NaN or an infinity
BnFromFloat(a) ==
    IF Finite(a) THEN [kind |-> "ok", value |-> a[1] \div a[2]]
    ELSE [kind |-> "invalid", value |-> 0]

\* divide_bn_to_number as one function, with the rounding of its f64 division
divide_bn_to_number(numerator, denominator) ==
    IF Fits(numerator, denominator)
    THEN FloatDiv(FloatOf(numerator), FloatOf(denominator))
    ELSE LET gcd_nd == Gcd(numerator, denominator)
             tn == numerator \div gcd_nd
             td == denominator \div gcd_nd
         IN IF Fits(tn, td) THEN FloatDiv(FloatOf(tn), FloatOf(td))
            ELSE LET zeros(x) == IF bit_length(x) >= NumBits THEN 0
                                 ELSE leading_zeros(x)
                     ns == zeros(tn)
                     ds == zeros(td)
                     sn == ShiftRight(tn, ns)
                     sd == ShiftRight(td, ds)
                     q == FloatDiv(FloatOf(sn), FloatOf(sd))
                 IN IF ~Finite(q) THEN q
                    ELSE IF ns >= ds THEN Quotient(q[1] * (2 ^ (ns - ds)), q[2])
                    ELSE Quotient(q[1], q[2] * (2 ^ (ds - ns)))

LotSizes == 1 .. MaxLotSize
\* integer lot values that fit in the mantissa
LotValues == 0 .. (2 ^ MantissaBits) - 1
\* non-negative human values: the f64s m / 2^k
HumanValues ==
    {Quotient(m, 2 ^ k) : m \in 0 .. (2 ^ MantissaBits) - 1, k \in 0 .. MaxScale}

PriceLotsToNumber(m, price) ==
    divide_bn_to_number(
        price * m.quote_lot_size * base_spl_token_multiplier(m.base_decimals),
        m.base_lot_size * quote_spl_token_multiplier(m.quote_decimals))

PriceNumberToLots(m, price) ==
    BnFromFloat(
        FloatDiv(FloatMul(FloatMul(price, Pow10(m.quote_decimals)),
                          FloatOf(m.base_lot_size)),
                 FloatRound(FloatMul(Pow10(m.base_decimals),
                                     FloatOf(m.quote_lot_size)))))

BaseSizeLotsToNumber(m, size) ==
    divide_bn_to_number(size * m.base_lot_size,
                        base_spl_token_multiplier(m.base_decimals))

BaseSizeNumberToLots(m, size) ==
    LET native == BnFromFloat(FloatRound(FloatMul(size, Pow10(m.base_decimals))))
    IN IF native.kind = "ok"
       THEN [kind |-> "ok", value |-> native.value \div m.base_lot_size]
       ELSE native

\* a market and a lot value: the forward conversion
price_lots_to_number ==
    /\ pc = "idle"
    /\ pc' = "number"
    /\ \E bl \in LotSizes, ql \in LotSizes, bd \in Decimals, qd \in Decimals,
          l \in LotValues :
          LET m == [LotsIdle EXCEPT !.op = "price", !.from = "lots",
                                    !.base_lot_size = bl, !.quote_lot_size = ql,
                                    !.base_decimals = bd, !.quote_decimals = qd,
                                    !.lot = l]
          IN lots' = [m EXCEPT !.number = PriceLotsToNumber(m, l)]
    /\ UNCHANGED << book, ext, twin, cache, discount, instr, orderbook >>

base_size_lots_to_number ==
    /\ pc = "idle"
    /\ pc' = "number"
    /\ \E bl \in LotSizes, ql \in LotSizes, bd \in Decimals, qd \in Decimals,
          l \in LotValues :
          LET m == [LotsIdle EXCEPT !.op = "base", !.from = "lots",
                                    !.base_lot_size = bl, !.quote_lot_size = ql,
                                    !.base_decimals = bd, !.quote_decimals = qd,
                                    !.lot = l]
          IN lots' = [m EXCEPT !.number = BaseSizeLotsToNumber(m, l)]
    /\ UNCHANGED << book, ext, twin, cache, discount, instr, orderbook >>

\* a market and a human value handed in by the caller
HumanNumber ==
    /\ pc = "idle"
    /\ pc' = "number"
    /\ \E bl \in LotSizes, ql \in LotSizes, bd \in Decimals, qd \in Decimals,
          v \in HumanValues, op \in {"price", "base"} :
          lots' = [LotsIdle EXCEPT !.op = op, !.from = "human",
                                   !.base_lot_size = bl, !.quote_lot_size = ql,
                                   !.base_decimals = bd, !.quote_decimals = qd,
                                   !.number = v]
    /\ UNCHANGED << book, ext, twin, cache, discount, instr, orderbook >>

price_number_to_lots ==
    /\ pc = "number"
    /\ lots.op = "price"
    /\ pc' = "lots_done"
    /\ lots' = [lots EXCEPT !.result = PriceNumberToLots(lots, lots.number)]
    /\ UNCHANGED << book, ext, twin, cache, discount, instr, orderbook >>

base_size_number_to_lots ==
    /\ pc = "number"
    /\ lots.op = "base"
    /\ pc' = "lots_done"
    /\ lots' = [lots EXCEPT !.result = BaseSizeNumberToLots(lots, lots.number)]
    /\ UNCHANGED << book, ext, twin, cache, discount, instr, orderbook >>

InitLots ==
    /\ slab = EmptySlab
    /\ pc = "idle"
    /\ search_key = 0
    /\ index = 0
    /\ steps = 0
    /\ ret = "-"
    /\ descending = FALSE
    /\ stack = << >>
    /\ yielded = << >>
    /\ iter = "live"
    /\ cut = 0
    /\ depth = 0
    /\ is_bids = FALSE
    /\ levels = << >>
    /\ codec = CodecIdle
    /\ wire = WireIdle
    /\ queue = QueueIdle
    /\ parse = ParseIdle
    /\ div = DivIdle
    /\ lots = LotsIdle
    /\ twin = TwinIdle
    /\ cache = CacheIdle
    /\ discount = DiscountIdle
    /\ instr = InstrIdle
    /\ orderbook = OrderbookIdle

NextLots ==
    \/ price_lots_to_number
    \/ base_size_lots_to_number
    \/ HumanNumber
    \/ price_number_to_lots
    \/ base_size_number_to_lots

SpecLots == InitLots /\ [][NextLots]_vars

\* C21 (as claimed): a lot value that fits in the mantissa, converted to a
\* number and back, comes back unchanged, for prices and for base sizes, in
\* every market with non-zero lot sizes.
C21_LotRoundTripExact ==
    (pc = "lots_done" /\ lots.from = "lots") =>
        lots.result.kind = "ok" /\ lots.result.value = lots.lot

\* the exact quotient of a human value by the lot, as a fraction
ExactLots(m) ==
    IF m.op = "price"
    THEN << m.number[1] * (10 ^ m.quote_decimals) * m.base_lot_size,
            m.number[2] * (10 ^ m.base_decimals) * m.quote_lot_size >>
    ELSE << m.number[1] * (10 ^ m.base_decimals), m.number[2] * m.base_lot_size >>

Nearest(value, x) ==
    LET diff == IF value * x[2] >= x[1] THEN value * x[2] - x[1]
                ELSE x[1] - value * x[2]
    IN 2 * diff <= x[2]

\* C22 (as claimed): for a non-negative human value the lot count returned
\* by price_number_to_lots and by base_size_number_to_lots is the integer
\* nearest to the exact quotient.
C22_InverseRoundsToNearest ==
    (pc = "lots_done" /\ lots.from = "human") =>
        lots.result.kind = "ok" /\ Nearest(lots.result.value, ExactLots(lots))

====
